---------------------------- MODULE Spec2Model ----------------------------
(* Kid3DStudio: the scene graph, its linear undo/redo history and the      *)
(* command handlers of the App component, with the deferred callbacks      *)
(* (boolean timer, file-read completion, post-duplicate selection timer)   *)
(* modelled as closures that keep the values of the render that made them. *)
EXTENDS FiniteSets, Integers, Naturals, Sequences, TLC

(* ---------------------------------------------------------------------- *)
(* Bounds                                                                  *)
(* ---------------------------------------------------------------------- *)
MaxEffort == 7    \* what the user's commands may add up to, an editing
                  \* command counting 3 and an undo 1
MaxSel == 2       \* multi-select stops growing the selection here
MaxPending == 2   \* callbacks scheduled and not yet run, at most

(* ---------------------------------------------------------------------- *)
(* Numbers: exact rationals <<n, d>>, d > 0, in lowest terms; <<0, 0>> is  *)
(* NaN, which every operation hands on and no comparison finds smaller     *)
(* ---------------------------------------------------------------------- *)
RECURSIVE GCD(_, _)
GCD(a, b) == IF b = 0 THEN a ELSE GCD(b, a % b)

Abs(n) == IF n < 0 THEN 0 - n ELSE n

Norm(n, d) ==
    LET g == GCD(Abs(n), d) IN
    IF d = 0 THEN <<0, 0>>
    ELSE IF n = 0 THEN <<0, 1>> ELSE <<n \div g, d \div g>>

R(n) == <<n, 1>>
RAdd(a, b) == Norm(a[1] * b[2] + b[1] * a[2], a[2] * b[2])
RSub(a, b) == Norm(a[1] * b[2] - b[1] * a[2], a[2] * b[2])
RMul(a, b) == Norm(a[1] * b[1], a[2] * b[2])
RDivInt(a, k) == Norm(a[1], a[2] * k)
RDiv(a, b) ==
    IF b[1] < 0 THEN Norm(0 - a[1] * b[2], a[2] * (0 - b[1]))
    ELSE Norm(a[1] * b[2], a[2] * b[1])
NaN == <<0, 0>>
RLt(a, b) == a[1] * b[2] < b[1] * a[2]
RAbs(a) == <<Abs(a[1]), a[2]>>
\* Math.min, Math.max
RMin(a, b) == IF a = NaN \/ b = NaN THEN NaN ELSE IF RLt(b, a) THEN b ELSE a
RMax(a, b) == IF a = NaN \/ b = NaN THEN NaN ELSE IF RLt(a, b) THEN b ELSE a

Vec(x, y, z) == <<R(x), R(y), R(z)>>
VAdd(u, v) == [i \in 1..3 |-> RAdd(u[i], v[i])]
VSub(u, v) == [i \in 1..3 |-> RSub(u[i], v[i])]
VMul(u, v) == [i \in 1..3 |-> RMul(u[i], v[i])]
VDivScalar(u, k) == [i \in 1..3 |-> RDivInt(u[i], k)]

RECURSIVE VSum(_)
VSum(vs) == IF vs = <<>> THEN Vec(0, 0, 0)
            ELSE VAdd(vs[1], VSum(Tail(vs)))

(* ---------------------------------------------------------------------- *)
(* SceneObject. An optional field is <<>> when undefined, <<v>> otherwise. *)
(* ---------------------------------------------------------------------- *)
Undefined == <<>>
Some(v) == <<v>>
IsDefined(m) == m # <<>>

ShapeType == {"box", "sphere", "cylinder", "cone", "torus", "group", "custom"}

SceneObject(id, type, position, rotation, scale, pivot, color, name, children, geometryData, baseDimensions) ==
    [id |-> id, type |-> type, position |-> position, rotation |-> rotation,
     scale |-> scale, pivot |-> pivot, color |-> color, name |-> name,
     children |-> children, geometryData |-> geometryData,
     baseDimensions |-> baseDimensions]

\* A name is the text before a "(Copy ...)" suffix plus the suffix:
\* copy = 0 no suffix, copy = 1 " (Copy)", copy = n >= 2 " (Copy n)".
Name(root, copy) == [root |-> root, copy |-> copy]

Capitalize(word) ==
    CASE word = "box" -> "Box"
      [] word = "sphere" -> "Sphere"
      [] word = "cylinder" -> "Cylinder"
      [] word = "cone" -> "Cone"
      [] word = "torus" -> "Torus"
      [] word = "group" -> "Group"
      [] word = "custom" -> "Custom"
      [] word = "union" -> "Union"
      [] word = "intersect" -> "Intersect"
      [] word = "subtract" -> "Subtract"

(* ---------------------------------------------------------------------- *)
(* Sequence helpers                                                        *)
(* ---------------------------------------------------------------------- *)
Includes(s, x) == \E i \in 1..Len(s) : s[i] = x

RECURSIVE Without(_, _)
Without(s, x) ==
    IF s = <<>> THEN <<>>
    ELSE IF s[1] = x THEN Without(Tail(s), x)
    ELSE <<s[1]>> \o Without(Tail(s), x)

(* ---------------------------------------------------------------------- *)
(* Recursive walks over the forest                                         *)
(* ---------------------------------------------------------------------- *)
RECURSIVE updateObjectRecursive(_, _, _)
updateObjectRecursive(list, id, updates) ==
    [i \in 1..Len(list) |->
        LET obj == list[i] IN
        IF obj.id = id
        THEN [f \in DOMAIN obj |->
                 IF f \in DOMAIN updates THEN updates[f] ELSE obj[f]]
        ELSE IF IsDefined(obj.children)
        THEN [obj EXCEPT !.children =
                 Some(updateObjectRecursive(obj.children[1], id, updates))]
        ELSE obj]

\* list.filter(obj => !ids.includes(obj.id)): the root list only
deleteObjectShallow(list, ids) ==
    SelectSeq(list, LAMBDA obj : ~Includes(ids, obj.id))

RECURSIVE deleteObjectRecursive(_, _)
deleteObjectRecursive(list, ids) ==
    IF list = <<>> THEN <<>>
    ELSE LET obj == list[1]
             rest == deleteObjectRecursive(Tail(list), ids)
         IN IF Includes(ids, obj.id) THEN rest
            ELSE IF IsDefined(obj.children)
            THEN <<[obj EXCEPT !.children =
                      Some(deleteObjectRecursive(obj.children[1], ids))]>>
                 \o rest
            ELSE <<obj>> \o rest

RECURSIVE findObjectRecursive(_, _)
findObjectRecursive(list, id) ==
    IF list = <<>> THEN Undefined
    ELSE LET obj == list[1] IN
         IF obj.id = id THEN Some(obj)
         ELSE LET found == IF IsDefined(obj.children)
                           THEN findObjectRecursive(obj.children[1], id)
                           ELSE Undefined
              IN IF IsDefined(found) THEN found
                 ELSE findObjectRecursive(Tail(list), id)

\* names.add(i.name) over the whole forest
RECURSIVE getAllNames(_)
getAllNames(list) ==
    IF list = <<>> THEN {}
    ELSE {list[1].name}
         \cup (IF IsDefined(list[1].children)
               THEN getAllNames(list[1].children[1]) ELSE {})
         \cup getAllNames(Tail(list))

RECURSIVE allIds(_)
allIds(list) ==
    IF list = <<>> THEN <<>>
    ELSE <<list[1].id>>
         \o (IF IsDefined(list[1].children)
             THEN allIds(list[1].children[1]) ELSE <<>>)
         \o allIds(Tail(list))

RECURSIVE allNodes(_)
allNodes(list) ==
    IF list = <<>> THEN <<>>
    ELSE <<list[1]>>
         \o (IF IsDefined(list[1].children)
             THEN allNodes(list[1].children[1]) ELSE <<>>)
         \o allNodes(Tail(list))

Range(s) == {s[i] : i \in 1..Len(s)}

(* ---------------------------------------------------------------------- *)
(* Inputs                                                                  *)
(* ---------------------------------------------------------------------- *)
\* the shapes offered by the Toolbar, and the ones added here
ToolbarShapes == {"box", "sphere", "cylinder", "cone", "torus"}
AddedShapes == {"box"}

BooleanOps == {"union", "subtract", "intersect"}

\* '#' + Math.floor(Math.random() * 16777215).toString(16)
RandomColors == {"#3b82f6"}

\* a patch sent by the PropertiesPanel: the position reset, a colour
\* picked from the palette
Updates == {[position |-> Vec(0, 0, 0)], [color |-> "#F59E0B"]}

\* an identifier that generateId never returns
UnknownId == 0

\* A BufferGeometry: what validateGeometry finds in it ("valid", "nopos"
\* no position buffer, "few" fewer than 9 numbers, "nonfinite"; "unparsable"
\* is data that BufferGeometryLoader.parse throws on) and its vertices, of
\* which two opposite corners are kept.
Geometry(status, vertices) == [status |-> status, vertices |-> vertices]

\* new THREE.BoxGeometry(1, 1, 1)
BoxGeometry ==
    Geometry("valid", <<[i \in 1..3 |-> <<0 - 1, 2>>],
                        [i \in 1..3 |-> <<1, 2>>]>>)

\* what the mesh parsers make of the bytes read: an exception, no
\* geometry, or a geometry, here after geometry.center(), with the size of
\* its bounding box ("few": a geometry without a triangle, whose empty box
\* has size 0)
FileContents ==
    {[result |-> "throws", size |-> Vec(0, 0, 0), vertices |-> <<>>],
     [result |-> "none", size |-> Vec(0, 0, 0), vertices |-> <<>>],
     [result |-> "valid", size |-> Vec(4, 0, 6),
      vertices |-> <<Vec(0 - 2, 0, 0 - 3), Vec(2, 0, 3)>>],
     [result |-> "few", size |-> Vec(0, 0, 0), vertices |-> <<>>]}

\* file.name, as the text before the last dot and the extension after it
FileNames == {[base |-> "tower", extension |-> "stl"]}

NoFile == [base |-> "", extension |-> ""]

\* Project files on disk, as handleSaveJSON wrote them in an earlier
\* session: JSON.stringify leaves out the undefined fields and JSON.parse
\* gives back the others. The identifiers in them were made by generateId
\* then, so generateId does not return them again.
SavedBox ==
    SceneObject(101, "box", Vec(0, 0, 10), Vec(0, 0, 0), Vec(20, 20, 20),
                Some(Vec(0, 0, 0)), "#ef4444", Name(<<"Box", 1>>, 0),
                Undefined, Undefined, Undefined)

SavedSphere ==
    SceneObject(102, "sphere", Vec(10, 0, 10), Vec(0, 0, 0), Vec(20, 20, 20),
                Some(Vec(0, 0, 0)), "#10b981", Name(<<"Sphere", 2>>, 0),
                Undefined, Undefined, Undefined)

ProjectFiles ==
    {[name |-> "Two Solids", objects |-> <<SavedBox, SavedSphere>>]}

\* what CSG.union / intersect / subtract do with two valid meshes
CsgOutcomes == {"ok", "throws", "nomesh", "invalid"}

\* the vertices, in world space, of a valid combinator result
CsgResults == {<<Vec(0 - 10, 0, 10), <<R(20), <<1, 2>>, R(10)>>>>}

(* ---------------------------------------------------------------------- *)
(* State                                                                   *)
(* ---------------------------------------------------------------------- *)
VARIABLES
    objects,       \* useState<SceneObject[]>: the root list
    past,          \* useState<SceneObject[][]>: oldest -> newest
    future,        \* useState<SceneObject[][]>: nearest redo first
    selectedIds,   \* useState<string[]>
    notification,  \* useState<{message, type} | null>
    nextId,        \* the next value generateId returns
    pending,       \* callbacks scheduled and not yet run, with their closures
    last,          \* the last handler that reached the scene or the
                   \* history, or reported an error, and how it ended
    issued,        \* what the commands issued so far add up to
    cursor         \* document.body.style.cursor

vars == <<objects, past, future, selectedIds, notification, nextId,
          pending, last, issued, cursor>>

Spend(cost) == issued + cost <= MaxEffort /\ issued' = issued + cost

Issue == Spend(3)

Schedule(callback) ==
    /\ Len(pending) < MaxPending
    /\ pending' = Append(pending, callback)

Tag(op, commit, found) ==
    [op |-> op, commit |-> commit, found |-> found,
     hadFuture |-> future # <<>>]

\* generateId returns an identifier it has never returned before: the
\* identifiers are the naturals in the order they are handed out.
generateId == nextId

generated(count) == nextId' = nextId + count

showNotification(message, type) == Some([message |-> message, type |-> type])

\* the App as constructed
InitNew ==
    /\ objects = <<>>
    /\ notification = Undefined

\* the App after handleOpenProject has read a project file into it:
\* setObjects(json.objects), setPast([]), setFuture([]), setSelectedIds([])
InitOpened ==
    \E json \in ProjectFiles :
        /\ objects = json.objects
        /\ notification = showNotification("Project loaded successfully.",
                                           "success")

Init ==
    /\ InitNew \/ InitOpened
    /\ past = <<>>
    /\ future = <<>>
    /\ selectedIds = <<>>
    /\ nextId = 1
    /\ pending = <<>>
    /\ last = [op |-> "init", commit |-> FALSE, found |-> TRUE,
               hadFuture |-> FALSE]
    /\ issued = 0
    /\ cursor = "default"

(* ---------------------------------------------------------------------- *)
(* History                                                                 *)
(* ---------------------------------------------------------------------- *)
\* saveToHistory without setFuture([])
saveToHistoryKeepsFuture(prevPast, prevFuture, objs) ==
    [past |-> Append(prevPast, objs), future |-> prevFuture]

\* setPast(prev => [...prev, objects]); setFuture([]), where objs is the
\* value of objects in the closure of the caller
saveToHistory(prevPast, prevFuture, objs) ==
    [past |-> Append(prevPast, objs), future |-> <<>>]

\* undo that restores the snapshot and forgets the current graph
undoStateDropsCurrent(objs, prevPast, prevFuture) ==
    [objects |-> prevPast[Len(prevPast)],
     past |-> SubSeq(prevPast, 1, Len(prevPast) - 1),
     future |-> prevFuture]

undoState(objs, prevPast, prevFuture) ==
    [objects |-> prevPast[Len(prevPast)],
     past |-> SubSeq(prevPast, 1, Len(prevPast) - 1),
     future |-> <<objs>> \o prevFuture]

undo ==
    IF past = <<>>
    THEN UNCHANGED vars
    ELSE LET s == undoState(objects, past, future) IN
         /\ Spend(1)
         /\ objects' = s.objects
         /\ past' = s.past
         /\ future' = s.future
         /\ last' = Tag("undo", FALSE, TRUE)
         /\ UNCHANGED <<selectedIds, notification, nextId, pending, cursor>>

\* redo that takes the snapshot from the far end of future
redoStateTakesLast(objs, prevPast, prevFuture) ==
    [objects |-> prevFuture[Len(prevFuture)],
     past |-> Append(prevPast, objs),
     future |-> SubSeq(prevFuture, 1, Len(prevFuture) - 1)]

redoState(objs, prevPast, prevFuture) ==
    [objects |-> prevFuture[1],
     past |-> Append(prevPast, objs),
     future |-> Tail(prevFuture)]

\* redo that does not push the current graph onto past
redoKeepsPast ==
    IF future = <<>>
    THEN UNCHANGED vars
    ELSE /\ objects' = future[1]
         /\ past' = past
         /\ future' = Tail(future)
         /\ last' = Tag("redo", FALSE, TRUE)
         /\ UNCHANGED <<selectedIds, notification, nextId, pending, cursor,
                        issued>>

redo ==
    IF future = <<>>
    THEN UNCHANGED vars
    ELSE LET s == redoState(objects, past, future) IN
         /\ objects' = s.objects
         /\ past' = s.past
         /\ future' = s.future
         /\ last' = Tag("redo", FALSE, TRUE)
         /\ UNCHANGED <<selectedIds, notification, nextId, pending, cursor,
                        issued>>

(* ---------------------------------------------------------------------- *)
(* Object management                                                       *)
(* ---------------------------------------------------------------------- *)
handleAddShape(type, color) ==
    /\ Issue
    /\ LET h == saveToHistory(past, future, objects)
           newObject ==
               SceneObject(generateId, type, Vec(0, 0, 10), Vec(0, 0, 0),
                           Vec(20, 20, 20), Some(Vec(0, 0, 0)), color,
                           Name(<<Capitalize(type), Len(objects) + 1>>, 0),
                           Undefined, Undefined, Undefined)
       IN /\ past' = h.past
          /\ future' = h.future
          /\ objects' = Append(objects, newObject)
          /\ selectedIds' = <<newObject.id>>
    /\ generated(1)
    /\ last' = Tag("add", TRUE, TRUE)
    /\ UNCHANGED <<notification, pending, cursor>>

handleUpdateObject(id, updates) ==
    /\ Issue
    /\ LET h == saveToHistory(past, future, objects) IN
       /\ past' = h.past
       /\ future' = h.future
    /\ objects' = updateObjectRecursive(objects, id, updates)
    /\ last' = Tag("update", TRUE, IsDefined(findObjectRecursive(objects, id)))
    /\ UNCHANGED <<selectedIds, notification, nextId, pending, cursor>>

handleDeleteObject(id) ==
    /\ Issue
    /\ LET h == saveToHistory(past, future, objects) IN
       /\ past' = h.past
       /\ future' = h.future
    /\ objects' = deleteObjectRecursive(objects, <<id>>)
    /\ selectedIds' = Without(selectedIds, id)
    /\ last' = Tag("delete", TRUE, IsDefined(findObjectRecursive(objects, id)))
    /\ UNCHANGED <<notification, nextId, pending, cursor>>

\* selectedIds.forEach(id => handleDeleteObject(id)): the updaters queued
\* by the calls run one after the other on the latest value
RECURSIVE deleteEach(_, _)
deleteEach(list, ids) ==
    IF ids = <<>> THEN list
    ELSE deleteEach(deleteObjectRecursive(list, <<ids[1]>>), Tail(ids))

RECURSIVE withoutEach(_, _)
withoutEach(sel, ids) ==
    IF ids = <<>> THEN sel
    ELSE withoutEach(Without(sel, ids[1]), Tail(ids))

\* every handleDeleteObject(id) calls saveToHistory of the same render, and
\* the button handler calls it once more
RECURSIVE saveEach(_, _, _)
saveEach(h, objs, ids) ==
    IF ids = <<>> THEN h
    ELSE saveEach(saveToHistory(h.past, h.future, objs), objs, Tail(ids))

deleteSelectedHistory(prevPast, prevFuture, objs, ids) ==
    LET h == saveEach([past |-> prevPast, future |-> prevFuture], objs, ids)
    IN saveToHistory(h.past, h.future, objs)

\* the Delete Selected button exists in the multi-selection view only
onDeleteSelected ==
    /\ Len(selectedIds) > 1
    /\ Issue
    /\ LET h == deleteSelectedHistory(past, future, objects, selectedIds) IN
       /\ past' = h.past
       /\ future' = h.future
    /\ objects' = deleteEach(objects, selectedIds)
    /\ selectedIds' = withoutEach(selectedIds, selectedIds)
    /\ last' = Tag("deleteSelected", TRUE, TRUE)
    /\ UNCHANGED <<notification, nextId, pending, cursor>>

RECURSIVE countNodes(_)
countNodes(list) ==
    IF list = <<>> THEN 0
    ELSE 1 + (IF IsDefined(list[1].children)
              THEN countNodes(list[1].children[1]) ELSE 0)
           + countNodes(Tail(list))

\* a copy name taken without looking at the names in use
uniqueCopyNameUnchecked(original, existingNames) ==
    Name(original.name.root, 1)

\* const re = /^(.*?)\s\(Copy(?:\s(\d+))?\)$/ strips the suffix; the loop
\* then takes the first of "(Copy)", "(Copy 2)", "(Copy 3)", ... not in use
uniqueCopyName(original, existingNames) ==
    LET rootName == original.name.root
        count == CHOOSE n \in 1..(Cardinality(existingNames) + 1) :
                    /\ Name(rootName, n) \notin existingNames
                    /\ \A m \in 1..(n - 1) : Name(rootName, m) \in existingNames
    IN Name(rootName, count)

\* a clone whose descendants keep the identifiers of the originals
RECURSIVE deepCloneKeepsChildIds(_, _, _, _)
deepCloneKeepsChildIds(obj, isRoot, newName, firstId) ==
    LET kids == IF IsDefined(obj.children) THEN obj.children[1] ELSE <<>>
    IN [obj EXCEPT
           !.id = IF isRoot THEN firstId ELSE obj.id,
           !.name = IF isRoot THEN newName ELSE obj.name,
           !.position = IF isRoot
                        THEN <<RAdd(obj.position[1], R(5)), obj.position[2],
                               RAdd(obj.position[3], R(5))>>
                        ELSE obj.position,
           !.children = IF IsDefined(obj.children)
                        THEN Some([i \in 1..Len(kids) |->
                                     deepCloneKeepsChildIds(kids[i], FALSE,
                                                            newName, firstId)])
                        ELSE Undefined,
           !.pivot = IF IsDefined(obj.pivot) THEN obj.pivot
                     ELSE Some(Vec(0, 0, 0))]

\* a clone built field by field that leaves geometryData out
RECURSIVE deepCloneWithoutGeometry(_, _, _, _)
deepCloneWithoutGeometry(obj, isRoot, newName, firstId) ==
    LET kids == IF IsDefined(obj.children) THEN obj.children[1] ELSE <<>>
        idOf(i) == firstId + 1 + countNodes(SubSeq(kids, 1, i - 1))
    IN [obj EXCEPT
           !.id = firstId,
           !.name = IF isRoot THEN newName ELSE obj.name,
           !.position = IF isRoot
                        THEN <<RAdd(obj.position[1], R(5)), obj.position[2],
                               RAdd(obj.position[3], R(5))>>
                        ELSE obj.position,
           !.children = IF IsDefined(obj.children)
                        THEN Some([i \in 1..Len(kids) |->
                                     deepCloneWithoutGeometry(
                                         kids[i], FALSE, newName, idOf(i))])
                        ELSE Undefined,
           !.geometryData = Undefined,
           !.pivot = IF IsDefined(obj.pivot) THEN obj.pivot
                     ELSE Some(Vec(0, 0, 0))]

\* generateId() runs for a node before it runs for the node's children
RECURSIVE deepClone(_, _, _, _)
deepClone(obj, isRoot, newName, firstId) ==
    LET kids == IF IsDefined(obj.children) THEN obj.children[1] ELSE <<>>
        idOf(i) == firstId + 1 + countNodes(SubSeq(kids, 1, i - 1))
    IN [obj EXCEPT
           !.id = firstId,
           !.name = IF isRoot THEN newName ELSE obj.name,
           !.position = IF isRoot
                        THEN <<RAdd(obj.position[1], R(5)), obj.position[2],
                               RAdd(obj.position[3], R(5))>>
                        ELSE obj.position,
           !.children = IF IsDefined(obj.children)
                        THEN Some([i \in 1..Len(kids) |->
                                     deepClone(kids[i], FALSE, newName, idOf(i))])
                        ELSE Undefined,
           !.pivot = IF IsDefined(obj.pivot) THEN obj.pivot
                     ELSE Some(Vec(0, 0, 0))]

handleDuplicateObject(id) ==
    /\ Issue
    /\ LET h == saveToHistory(past, future, objects)
           original == findObjectRecursive(objects, id)
       IN /\ past' = h.past
          /\ future' = h.future
          /\ last' = Tag("duplicate", TRUE, IsDefined(original))
          /\ IF ~IsDefined(original)
             THEN UNCHANGED <<objects, nextId, pending, cursor>>
             ELSE LET newName == uniqueCopyName(original[1], getAllNames(objects))
                      newObject == deepClone(original[1], TRUE, newName, generateId)
                  IN /\ objects' = Append(objects, newObject)
                     /\ generated(countNodes(original))
                     /\ Schedule([kind |-> "select", id |-> newObject.id,
                                  op |-> "", objects |-> <<>>,
                                  selectedIds |-> <<>>, file |-> NoFile])
                     /\ UNCHANGED cursor
    /\ UNCHANGED <<selectedIds, notification>>

\* a timer runs after the timers of its kind that were set before it, a
\* file is read whenever its FileReader is done
canRun(i) ==
    /\ i \in 1..Len(pending)
    /\ \/ pending[i].kind \in {"import", "open"}
       \/ \A j \in 1..(i - 1) : pending[j].kind # pending[i].kind

dropPending(i) ==
    SubSeq(pending, 1, i - 1) \o SubSeq(pending, i + 1, Len(pending))

\* setTimeout(() => setSelectedIds([newObject.id]), 0)
duplicateSelectTimer(i) ==
    /\ canRun(i)
    /\ pending[i].kind = "select"
    /\ selectedIds' = <<pending[i].id>>
    /\ pending' = dropPending(i)
    /\ UNCHANGED <<objects, past, future, notification, nextId, last, issued,
                   cursor>>

(* ---------------------------------------------------------------------- *)
(* Selection                                                               *)
(* ---------------------------------------------------------------------- *)
handleSelect(id, multi) ==
    /\ selectedIds' =
          IF id = Undefined THEN <<>>
          ELSE IF multi
          THEN IF Includes(selectedIds, id[1])
               THEN Without(selectedIds, id[1])
               ELSE Append(selectedIds, id[1])
          ELSE <<id[1]>>
    /\ Len(selectedIds') <= MaxSel
    /\ selectedIds' # selectedIds
    /\ UNCHANGED <<objects, past, future, notification, nextId, pending,
                   last, issued, cursor>>

(* ---------------------------------------------------------------------- *)
(* Grouping                                                                *)
(* ---------------------------------------------------------------------- *)
\* the selected root nodes in the order they were selected
selectedOfAsSelected(list, ids) ==
    LET present == SelectSeq(ids, LAMBDA id :
                                 \E i \in 1..Len(list) : list[i].id = id)
    IN [j \in 1..Len(present) |->
           list[CHOOSE i \in 1..Len(list) : list[i].id = present[j]]]

RECURSIVE selectedOf(_, _)
selectedOf(list, ids) ==
    IF list = <<>> THEN <<>>
    ELSE IF Includes(ids, list[1].id)
    THEN <<list[1]>> \o selectedOf(Tail(list), ids)
    ELSE selectedOf(Tail(list), ids)

RECURSIVE othersOf(_, _)
othersOf(list, ids) ==
    IF list = <<>> THEN <<>>
    ELSE IF Includes(ids, list[1].id)
    THEN othersOf(Tail(list), ids)
    ELSE <<list[1]>> \o othersOf(Tail(list), ids)

\* a group made without its children list
newGroupOfWithoutChildren(selectedObjects, id, rootCount) ==
    LET center == VDivScalar(
                      VSum([i \in 1..Len(selectedObjects) |->
                               selectedObjects[i].position]),
                      Len(selectedObjects))
    IN SceneObject(id, "group", center, Vec(0, 0, 0), Vec(1, 1, 1),
                   Some(Vec(0, 0, 0)), "#ffffff",
                   Name(<<"Group", rootCount + 1>>, 0),
                   Undefined, Undefined, Undefined)

newGroupOf(selectedObjects, id, rootCount) ==
    LET center == VDivScalar(
                      VSum([i \in 1..Len(selectedObjects) |->
                               selectedObjects[i].position]),
                      Len(selectedObjects))
        children == [i \in 1..Len(selectedObjects) |->
                        [selectedObjects[i] EXCEPT
                            !.position = VSub(@, center)]]
    IN SceneObject(id, "group", center, Vec(0, 0, 0), Vec(1, 1, 1),
                   Some(Vec(0, 0, 0)), "#ffffff",
                   Name(<<"Group", rootCount + 1>>, 0),
                   Some(children), Undefined, Undefined)

handleGroup ==
    IF Len(selectedIds) < 2
    THEN UNCHANGED vars
    ELSE LET selectedObjects == selectedOf(objects, selectedIds)
             otherObjects == othersOf(objects, selectedIds)
             h == saveToHistory(past, future, objects)
         IN /\ Issue
            /\ past' = h.past
            /\ future' = h.future
            /\ last' = Tag("group", TRUE, selectedObjects # <<>>)
            /\ IF selectedObjects = <<>>
               THEN UNCHANGED <<objects, selectedIds, notification, nextId>>
               ELSE LET newGroup == newGroupOf(selectedObjects, generateId,
                                               Len(objects))
                    IN /\ objects' = Append(otherObjects, newGroup)
                       /\ selectedIds' = <<newGroup.id>>
                       /\ generated(1)
                       /\ notification' = showNotification(
                              "Objects grouped successfully.", "success")
            /\ UNCHANGED <<pending, cursor>>

\* objects.find(o => o.id === selectedIds[0]): the root list only
findRoot(list, id) ==
    IF \E i \in 1..Len(list) : list[i].id = id
    THEN Some(list[CHOOSE i \in 1..Len(list) :
                      /\ list[i].id = id
                      /\ \A j \in 1..(i - 1) : list[j].id # id])
    ELSE Undefined

\* childMatrix.premultiply(groupMatrix) followed by decompose, for the
\* transforms that occur here: no scale is negative and the only rotation
\* is NaN. The product of two such matrices is the diagonal group.scale *
\* child.scale placed at group.position + group.scale * child.position.
\* decompose reads the scale as the lengths of the columns, divides the
\* columns by them and reads the rotation from the quotient: a column of
\* length 0 gives 0 * (1 / 0) = NaN, and a NaN in the matrix makes the
\* quaternion and the Euler angles NaN.
ungroupChild(group, child) ==
    LET groupNaN == \E i \in 1..3 : group.rotation[i] = NaN
        childNaN == \E i \in 1..3 : child.rotation[i] = NaN
        diagonal == IF groupNaN \/ childNaN THEN <<NaN, NaN, NaN>>
                    ELSE VMul(group.scale, child.scale)
        pos == IF groupNaN THEN <<NaN, NaN, NaN>>
               ELSE VAdd(group.position, VMul(group.scale, child.position))
        scale == [i \in 1..3 |-> RAbs(diagonal[i])]
        quotient == [i \in 1..3 |->
                        RMul(diagonal[i], RDiv(R(1), scale[i]))]
        euler == IF \E i \in 1..3 : quotient[i] = NaN
                 THEN <<NaN, NaN, NaN>> ELSE Vec(0, 0, 0)
    IN [child EXCEPT
           !.position = pos,
           !.rotation = euler,
           !.scale = scale,
           !.pivot = IF IsDefined(child.pivot) THEN child.pivot
                     ELSE Some(Vec(0, 0, 0))]

handleUngroup ==
    LET group == IF Len(selectedIds) = 1
                 THEN findRoot(objects, selectedIds[1]) ELSE Undefined
        isGroup == /\ IsDefined(group)
                   /\ group[1].type = "group"
                   /\ IsDefined(group[1].children)
    IN IF ~isGroup
       THEN UNCHANGED vars
       ELSE LET h == saveToHistory(past, future, objects)
                kids == group[1].children[1]
                newChildren == [i \in 1..Len(kids) |->
                                   ungroupChild(group[1], kids[i])]
                otherObjects == othersOf(objects, <<group[1].id>>)
            IN /\ Issue
               /\ past' = h.past
               /\ future' = h.future
               /\ objects' = otherObjects \o newChildren
               /\ selectedIds' = [i \in 1..Len(newChildren) |->
                                     newChildren[i].id]
               /\ notification' = showNotification("Group ungrouped.",
                                                   "success")
               /\ last' = Tag("ungroup", TRUE, TRUE)
               /\ UNCHANGED <<nextId, pending, cursor>>

(* ---------------------------------------------------------------------- *)
(* BooleanOperationSystem                                                  *)
(* ---------------------------------------------------------------------- *)
validateGeometry(geometry) == geometry.status = "valid"

Epsilon == <<1, 1000>>

\* Math.abs(s) < 0.001 ? 0.001 : s
floorScaleUnsigned(s) == IF RLt(RAbs(s), Epsilon) THEN Epsilon ELSE s

\* Math.abs(s) < 0.001 ? (s >= 0 ? 0.001 : -0.001) : s
floorScale(s) ==
    IF RLt(RAbs(s), Epsilon)
    THEN IF ~RLt(s, R(0)) THEN Epsilon ELSE <<0 - Epsilon[1], Epsilon[2]>>
    ELSE s

createMeshFromObject(obj) ==
    LET geometry ==
            IF obj.type = "custom"
            THEN IF IsDefined(obj.geometryData)
                 THEN IF obj.geometryData[1].status = "unparsable"
                      THEN BoxGeometry      \* catch (e)
                      ELSE obj.geometryData[1]
                 ELSE BoxGeometry
            ELSE BoxGeometry    \* every primitive fills the unit box
    IN IF ~validateGeometry(geometry) THEN Undefined
       ELSE Some([geometry |-> geometry,
                  position |-> IF IsDefined(obj.pivot)
                               THEN VAdd(obj.position, obj.pivot[1])
                               ELSE obj.position,
                  rotation |-> obj.rotation,
                  scale |-> [i \in 1..3 |-> floorScale(obj.scale[i])]])

\* a vertex v of a mesh or wrapper group placed by matrixWorld; the
\* transforms that occur here carry no rotation other than NaN
applyMatrix4(position, rotation, scale, v) ==
    IF \E i \in 1..3 : rotation[i] = NaN THEN <<NaN, NaN, NaN>>
    ELSE VAdd(position, VMul(scale, v))

\* CSG.toMesh(csg, meshA.matrix): the result's vertices in the frame of
\* meshA, in a mesh placed as meshA is
toMesh(world, meshA) ==
    [geometry |->
         Geometry("valid",
                  [k \in 1..Len(world) |->
                      [i \in 1..3 |->
                          RDiv(RSub(world[k][i], meshA.position[i]),
                               meshA.scale[i])]]),
     position |-> meshA.position,
     rotation |-> meshA.rotation,
     scale |-> meshA.scale]

RECURSIVE Box3(_)
Box3(points) ==
    IF Len(points) = 1 THEN [min |-> points[1], max |-> points[1]]
    ELSE LET rest == Box3(Tail(points)) IN
         [min |-> [i \in 1..3 |-> RMin(points[1][i], rest.min[i])],
          max |-> [i \in 1..3 |-> RMax(points[1][i], rest.max[i])]]

\* new THREE.Box3().setFromObject(mesh), getCenter and getSize
setFromObject(mesh) ==
    LET vertices == mesh.geometry.vertices
        box == Box3([k \in 1..Len(vertices) |->
                        applyMatrix4(mesh.position, mesh.rotation,
                                     mesh.scale, vertices[k])])
    IN IF vertices = <<>>
       THEN [center |-> Vec(0, 0, 0), size |-> Vec(0, 0, 0)]
       ELSE [center |-> VDivScalar(VAdd(box.min, box.max), 2),
             size |-> VSub(box.max, box.min)]

Invalid(error) ==
    [isValid |-> FALSE, error |-> error, geometry |-> Geometry("few", <<>>),
     position |-> Vec(0, 0, 0), size |-> Vec(0, 0, 0)]

performOperation(meshA, meshB, csg, world) ==
    IF ~IsDefined(meshA) \/ ~IsDefined(meshB)
    THEN Invalid("One or both meshes are invalid")
    ELSE IF ~validateGeometry(meshA[1].geometry)
            \/ ~validateGeometry(meshB[1].geometry)
    THEN Invalid("Mesh geometry is invalid")
    ELSE CASE csg = "throws" -> Invalid("CSG operation failed: exception")
           [] csg = "nomesh" ->
                  Invalid("CSG operation failed - no result mesh")
           [] csg = "invalid" -> Invalid("Result geometry is invalid")
           [] OTHER ->
                  LET resultMesh == toMesh(world, meshA[1])
                      boundingBox == setFromObject(resultMesh)
                  IN [isValid |-> TRUE, error |-> "",
                      geometry |-> resultMesh.geometry,
                      position |-> boundingBox.center,
                      size |-> boundingBox.size]

\* Math.max(Math.abs(x), 1)
absAtLeastOne(x) == IF RLt(RAbs(x), R(1)) THEN R(1) ELSE RAbs(x)

\* Math.abs(x) || 1
absOrOne(x) == IF x[1] = 0 THEN R(1) ELSE RAbs(x)

\* the result placed at the centre of its bounding box
createResultObjectAtCenter(operationResult, objA, objB, operation, id) ==
    SceneObject(id, "custom", operationResult.position, Vec(0, 0, 0),
                [i \in 1..3 |-> absOrOne(operationResult.size[i])],
                Some(Vec(0, 0, 0)), objA.color,
                Name(<<Capitalize(operation), 0>>, 0),
                Undefined, Some(operationResult.geometry), Some(Vec(1, 1, 1)))

createResultObject(operationResult, objA, objB, operation, id) ==
    LET resultPosition ==
            IF operation = "subtract" THEN objA.position
            ELSE VDivScalar(VAdd(objA.position, objB.position), 2)
        offset == VSub(operationResult.position, resultPosition)
        adjustedGeometry ==
            Geometry(operationResult.geometry.status,
                     [k \in 1..Len(operationResult.geometry.vertices) |->
                         VSub(operationResult.geometry.vertices[k], offset)])
    IN SceneObject(id, "custom", resultPosition, Vec(0, 0, 0),
                   [i \in 1..3 |-> absOrOne(operationResult.size[i])],
                   Some(Vec(0, 0, 0)), objA.color,
                   Name(<<Capitalize(operation), 0>>, 0),
                   Undefined, Some(adjustedGeometry), Some(Vec(1, 1, 1)))

executeBooleanOperation(objA, objB, operation, csg, world, id) ==
    LET meshA == createMeshFromObject(objA)
        meshB == createMeshFromObject(objB)
        operationResult == performOperation(meshA, meshB, csg, world)
    IN IF ~IsDefined(meshA) \/ ~IsDefined(meshB)
       THEN [result |-> Undefined,
             error |-> "Failed to create meshes from scene objects"]
       ELSE IF ~operationResult.isValid
       THEN [result |-> Undefined, error |-> operationResult.error]
       ELSE [result |-> Some(createResultObject(operationResult, objA, objB,
                                                operation, id)),
             error |-> ""]

\* performBooleanOperation with saveToHistory() moved above the test of
\* result.result
performBooleanOperationSavesFirst(op, objs, sel, csg, world, id) ==
    LET Fail(message) ==
            [commit |-> FALSE, snapshot |-> <<>>, objects |-> <<>>,
             selectedIds |-> <<>>,
             notification |-> showNotification(message, "error")]
        objA == findObjectRecursive(objs, sel[1])
        objB == findObjectRecursive(objs, sel[2])
        result == executeBooleanOperation(objA[1], objB[1], op, csg, world, id)
    IN IF Len(sel) # 2
       THEN Fail("Please select exactly two objects for this operation.")
       ELSE IF ~IsDefined(objA) \/ ~IsDefined(objB)
       THEN Fail("Selected objects could not be found.")
       ELSE IF objA[1].type = "group" \/ objB[1].type = "group"
       THEN Fail("Boolean operations are not supported on Groups yet. "
                 \o "Please ungroup them first.")
       ELSE IF ~IsDefined(result.result)
       THEN [commit |-> TRUE, snapshot |-> objs, objects |-> objs,
             selectedIds |-> sel,
             notification |-> showNotification(
                 "Boolean operation failed: "
                 \o (IF result.error = "" THEN "Unknown error"
                     ELSE result.error), "error")]
       ELSE [commit |-> TRUE,
             snapshot |-> objs,
             objects |-> Append(deleteObjectRecursive(objs, <<sel[1], sel[2]>>),
                                result.result[1]),
             selectedIds |-> <<result.result[1].id>>,
             notification |-> showNotification(
                                "Boolean operation successful!", "success")]

\* The outcome of performBooleanOperation run with the objects and
\* selectedIds of its closure: the notification it shows and, when it
\* commits, the snapshot pushed and the new root list.
performBooleanOperation(op, objs, sel, csg, world, id) ==
    LET Fail(message) ==
            [commit |-> FALSE, snapshot |-> <<>>, objects |-> <<>>,
             selectedIds |-> <<>>,
             notification |-> showNotification(message, "error")]
        objA == findObjectRecursive(objs, sel[1])
        objB == findObjectRecursive(objs, sel[2])
        result == executeBooleanOperation(objA[1], objB[1], op, csg, world, id)
    IN IF Len(sel) # 2
       THEN Fail("Please select exactly two objects for this operation.")
       ELSE IF ~IsDefined(objA) \/ ~IsDefined(objB)
       THEN Fail("Selected objects could not be found.")
       ELSE IF objA[1].type = "group" \/ objB[1].type = "group"
       THEN Fail("Boolean operations are not supported on Groups yet. "
                 \o "Please ungroup them first.")
       ELSE IF ~IsDefined(result.result)
       THEN Fail("Boolean operation failed: "
                 \o (IF result.error = "" THEN "Unknown error"
                     ELSE result.error))
       ELSE [commit |-> TRUE,
             snapshot |-> objs,
             objects |-> Append(deleteObjectRecursive(objs, <<sel[1], sel[2]>>),
                                result.result[1]),
             selectedIds |-> <<result.result[1].id>>,
             notification |-> showNotification(
                                "Boolean operation successful!", "success")]

handleBooleanOperation(op) ==
    IF Len(selectedIds) # 2
    THEN UNCHANGED vars
    ELSE /\ Issue
         /\ Schedule([kind |-> "boolean", id |-> 0, op |-> op,
                      objects |-> objects, selectedIds |-> selectedIds,
                      file |-> NoFile])
         /\ last' = Tag("booleanRequest", FALSE, TRUE)
         /\ cursor' = "wait"
         /\ UNCHANGED <<objects, past, future, selectedIds, notification,
                        nextId>>

\* a timer that puts the cursor back only after a combine that was applied
booleanTimerKeepsCursor(i, csg, world) ==
    /\ canRun(i)
    /\ pending[i].kind = "boolean"
    /\ pending' = dropPending(i)
    /\ LET c == pending[i]
           out == performBooleanOperation(c.op, c.objects, c.selectedIds,
                                          csg, world, generateId)
       IN /\ notification' = out.notification
          /\ last' = Tag("boolean", out.commit, TRUE)
          /\ IF out.commit
             THEN /\ past' = saveToHistory(past, future, out.snapshot).past
                  /\ future' = saveToHistory(past, future, out.snapshot).future
                  /\ objects' = out.objects
                  /\ selectedIds' = out.selectedIds
                  /\ generated(1)
                  /\ cursor' = "default"
             ELSE UNCHANGED <<objects, past, future, selectedIds, nextId,
                              cursor>>
    /\ UNCHANGED issued

\* the 50 ms timer: performBooleanOperation(op) of the render that set it,
\* then document.body.style.cursor = 'default'
booleanTimer(i, csg, world) ==
    /\ canRun(i)
    /\ pending[i].kind = "boolean"
    /\ pending' = dropPending(i)
    /\ cursor' = "default"
    /\ LET c == pending[i]
           out == performBooleanOperation(c.op, c.objects, c.selectedIds,
                                          csg, world, generateId)
       IN /\ notification' = out.notification
          /\ last' = Tag("boolean", out.commit, TRUE)
          /\ IF out.commit
             THEN /\ past' = saveToHistory(past, future, out.snapshot).past
                  /\ future' = saveToHistory(past, future, out.snapshot).future
                  /\ objects' = out.objects
                  /\ selectedIds' = out.selectedIds
                  /\ generated(1)
             ELSE UNCHANGED <<objects, past, future, selectedIds, nextId>>
    /\ UNCHANGED issued

(* ---------------------------------------------------------------------- *)
(* Import                                                                  *)
(* ---------------------------------------------------------------------- *)
\* size.x || 1
orOne(x) == IF x[1] = 0 THEN R(1) ELSE x

importedObject(fileName, content, id, color) ==
    SceneObject(id, "custom",
                <<R(0), R(0), RDivInt(content.size[3], 2)>>,
                Vec(0, 0, 0), Vec(1, 1, 1), Some(Vec(0, 0, 0)), color,
                Name(<<fileName.base, 0>>, 0),
                Undefined, Some(Geometry(content.result, content.vertices)),
                Some([i \in 1..3 |-> orOne(content.size[i])]))

handleImportModel(fileName) ==
    /\ Issue
    /\ Schedule([kind |-> "import", id |-> 0, op |-> "", objects |-> objects,
                 selectedIds |-> <<>>, file |-> fileName])
    /\ last' = Tag("importRequest", FALSE, TRUE)
    /\ UNCHANGED <<objects, past, future, selectedIds, notification, nextId,
                   cursor>>

\* reader.onload, called with the bytes read: saveToHistory is the one of
\* the render that started the read, setObjects(prev => [...prev, newObject])
\* works on the latest list
importOnload(i, content, color) ==
    /\ canRun(i)
    /\ pending[i].kind = "import"
    /\ LET c == pending[i]
           h == saveToHistory(past, future, c.objects)
           newObject == importedObject(c.file, content, generateId, color)
       IN CASE content.result = "throws" ->
                 /\ notification' = showNotification(
                        "Error importing model file.", "error")
                 /\ last' = Tag("import", FALSE, TRUE)
                 /\ UNCHANGED <<objects, past, future, selectedIds, nextId>>
            [] content.result = "none" ->
                 /\ notification' = showNotification(
                        "Failed to extract geometry from file.", "error")
                 /\ last' = Tag("import", FALSE, TRUE)
                 /\ UNCHANGED <<objects, past, future, selectedIds, nextId>>
            [] OTHER ->
                 /\ past' = h.past
                 /\ future' = h.future
                 /\ objects' = Append(objects, newObject)
                 /\ selectedIds' = <<newObject.id>>
                 /\ generated(1)
                 /\ notification' = showNotification(
                        "Imported " \o c.file.base \o "." \o c.file.extension,
                        "success")
                 /\ last' = Tag("import", TRUE, TRUE)
    /\ pending' = dropPending(i)
    /\ UNCHANGED <<issued, cursor>>

(* ---------------------------------------------------------------------- *)
(* Specification                                                           *)
(* ---------------------------------------------------------------------- *)
idsInScene == Range(allIds(objects))

\* the targets a command can be called with: the nodes of the forest and
\* an identifier that none of them carries
Targets == idsInScene \cup {UnknownId}

AddStep ==
    \E type \in AddedShapes, color \in RandomColors :
        handleAddShape(type, color)

UpdateStep ==
    \E id \in Targets, updates \in Updates : handleUpdateObject(id, updates)

DeleteStep == \E id \in Targets : handleDeleteObject(id)

DuplicateStep == \E id \in Targets : handleDuplicateObject(id)

SelectStep ==
    \E id \in {Some(n) : n \in idsInScene} \cup {Undefined},
       multi \in BOOLEAN : handleSelect(id, multi)

BooleanRequestStep == \E op \in BooleanOps : handleBooleanOperation(op)

BooleanTimerStep ==
    \E i \in 1..Len(pending), csg \in CsgOutcomes, world \in CsgResults :
        booleanTimer(i, csg, world)

ImportRequestStep == \E fileName \in FileNames : handleImportModel(fileName)

ImportOnloadStep ==
    \E i \in 1..Len(pending), content \in FileContents,
       color \in RandomColors : importOnload(i, content, color)

SelectTimerStep == \E i \in 1..Len(pending) : duplicateSelectTimer(i)

Next ==
    \/ AddStep
    \/ UpdateStep
    \/ DeleteStep
    \/ onDeleteSelected
    \/ DuplicateStep
    \/ SelectTimerStep
    \/ SelectStep
    \/ handleGroup
    \/ handleUngroup
    \/ BooleanRequestStep
    \/ BooleanTimerStep
    \/ ImportRequestStep
    \/ ImportOnloadStep
    \/ undo
    \/ redo

Spec == Init /\ [][Next]_vars

(* ---------------------------------------------------------------------- *)
(* A session on a project whose nodes were moved off their pivot and       *)
(* flattened in the PropertiesPanel before it was saved                    *)
(* ---------------------------------------------------------------------- *)
PivotedBox ==
    SceneObject(201, "box", Vec(0, 0, 10), Vec(0, 0, 0), Vec(20, 20, 20),
                Some(Vec(0, 0, 5)), "#ef4444", Name(<<"Box", 1>>, 0),
                Undefined, Undefined, Undefined)

FlatCone ==
    SceneObject(202, "cone", Vec(10, 0, 10), Vec(0, 0, 0), Vec(0, 20, 20),
                Some(Vec(0, 0, 0)), "#10b981", Name(<<"Cone", 2>>, 0),
                Undefined, Undefined, Undefined)

\* solids scaled, in the PropertiesPanel, to either side of the smallest
\* scale the boolean engine accepts
ThinBox ==
    SceneObject(401, "box", Vec(0, 0, 10), Vec(0, 0, 0),
                <<R(0), R(0 - 20), <<1, 2000>>>>,
                Some(Vec(0, 0, 0)), "#ef4444", Name(<<"Box", 1>>, 0),
                Undefined, Undefined, Undefined)

ThinCone ==
    SceneObject(402, "cone", Vec(10, 0, 10), Vec(0, 0, 0),
                <<<<0 - 1, 2000>>, <<1, 1000>>, <<0 - 1, 1000>>>>,
                Some(Vec(0, 0, 0)), "#10b981", Name(<<"Cone", 2>>, 0),
                Undefined, Undefined, Undefined)

\* a group that holds a group and a solid
InnerGroup ==
    SceneObject(302, "group", Vec(0 - 5, 0, 0), Vec(0, 0, 0), Vec(1, 1, 1),
                Some(Vec(0, 0, 0)), "#ffffff", Name(<<"Group", 1>>, 0),
                Some(<<SceneObject(303, "box", Vec(0, 0, 0), Vec(0, 0, 0),
                                   Vec(20, 20, 20), Some(Vec(0, 0, 0)),
                                   "#ef4444", Name(<<"Box", 1>>, 0),
                                   Undefined, Undefined, Undefined)>>),
                Undefined, Undefined)

OuterGroup ==
    SceneObject(301, "group", Vec(5, 0, 10), Vec(0, 0, 0), Vec(1, 1, 1),
                Some(Vec(0, 0, 0)), "#ffffff", Name(<<"Group", 2>>, 0),
                Some(<<InnerGroup,
                       SceneObject(304, "sphere", Vec(5, 0, 0), Vec(0, 0, 0),
                                   Vec(20, 20, 20), Some(Vec(0, 0, 0)),
                                   "#10b981", Name(<<"Sphere", 2>>, 0),
                                   Undefined, Undefined, Undefined)>>),
                Undefined, Undefined)

EditedFiles ==
    {[name |-> "Edited Solids", objects |-> <<PivotedBox, FlatCone>>]}

SavedFiles ==
    {[name |-> "Thin Solids", objects |-> <<ThinBox, ThinCone>>],
     [name |-> "Nested Groups", objects |-> <<OuterGroup>>]}

\* What a file picked in the Open dialog holds: text that JSON.parse
\* throws on, or a document without objects, with objects that is an
\* object keyed "0", "1", ... and not an array, or with an objects array.
OpenDocuments ==
    {[parses |-> FALSE, objects |-> Undefined],
     [parses |-> TRUE, objects |-> Undefined],
     [parses |-> TRUE,
      objects |-> Some([kind |-> "object", value |-> <<PivotedBox>>])],
     [parses |-> TRUE,
      objects |-> Some([kind |-> "array", value |-> <<PivotedBox>>])],
     [parses |-> TRUE,
      objects |-> Some([kind |-> "array", value |-> <<>>])]}

\* the test of handleOpenProject without Array.isArray
isProjectDataUnchecked(json) == IsDefined(json.objects)

\* json.objects && Array.isArray(json.objects)
isProjectData(json) ==
    IsDefined(json.objects) /\ json.objects[1].kind = "array"

handleOpenProject ==
    /\ Issue
    /\ Schedule([kind |-> "open", id |-> 0, op |-> "", objects |-> <<>>,
                 selectedIds |-> <<>>, file |-> NoFile])
    /\ last' = Tag("openRequest", FALSE, TRUE)
    /\ UNCHANGED <<objects, past, future, selectedIds, notification, nextId,
                   cursor>>

\* reader.onload of handleOpenProject, called with the text read
openOnload(i, document) ==
    /\ canRun(i)
    /\ pending[i].kind = "open"
    /\ IF ~document.parses
       THEN /\ notification' = showNotification(
                                   "Error parsing project file.", "error")
            /\ last' = Tag("open", FALSE, TRUE)
            /\ UNCHANGED <<objects, past, future, selectedIds>>
       ELSE IF isProjectData(document)
       THEN /\ objects' = document.objects[1].value
            /\ past' = <<>>
            /\ future' = <<>>
            /\ selectedIds' = <<>>
            /\ notification' = showNotification(
                                   "Project loaded successfully.", "success")
            /\ last' = Tag("open", TRUE, TRUE)
       ELSE /\ notification' = showNotification(
                                   "Invalid project file structure.", "error")
            /\ last' = Tag("open", FALSE, TRUE)
            /\ UNCHANGED <<objects, past, future, selectedIds>>
    /\ pending' = dropPending(i)
    /\ UNCHANGED <<nextId, issued, cursor>>

OpenOnloadStep ==
    \E i \in 1..Len(pending), document \in OpenDocuments :
        openOnload(i, document)

InitEdited ==
    /\ \E json \in EditedFiles : objects = json.objects
    /\ notification = showNotification("Project loaded successfully.",
                                       "success")
    /\ past = <<>>
    /\ future = <<>>
    /\ selectedIds = <<>>
    /\ nextId = 1
    /\ pending = <<>>
    /\ last = [op |-> "init", commit |-> FALSE, found |-> TRUE,
               hadFuture |-> FALSE]
    /\ issued = 0
    /\ cursor = "default"

NextEdited ==
    \/ SelectStep
    \/ handleGroup
    \/ handleUngroup
    \/ BooleanRequestStep
    \/ BooleanTimerStep
    \/ handleOpenProject
    \/ OpenOnloadStep
    \/ undo
    \/ redo

SpecEdited == InitEdited /\ [][NextEdited]_vars

(* ---------------------------------------------------------------------- *)
(* The session with its timers running                                     *)
(* ---------------------------------------------------------------------- *)
NextLive ==
    \/ SelectStep
    \/ handleGroup
    \/ BooleanRequestStep
    \/ BooleanTimerStep

\* a timer set with setTimeout is never cleared: the event loop runs it
SpecLive == Init /\ [][NextLive]_vars /\ WF_vars(BooleanTimerStep)

(* ---------------------------------------------------------------------- *)
(* A session on a saved project that holds thin solids or nested groups    *)
(* ---------------------------------------------------------------------- *)
InitSaved ==
    /\ \E json \in SavedFiles : objects = json.objects
    /\ notification = showNotification("Project loaded successfully.",
                                       "success")
    /\ past = <<>>
    /\ future = <<>>
    /\ selectedIds = <<>>
    /\ nextId = 1
    /\ pending = <<>>
    /\ last = [op |-> "init", commit |-> FALSE, found |-> TRUE,
               hadFuture |-> FALSE]
    /\ issued = 0
    /\ cursor = "default"

NextSaved ==
    \/ SelectStep
    \/ DeleteStep
    \/ handleUngroup
    \/ BooleanRequestStep
    \/ BooleanTimerStep

SpecSaved == InitSaved /\ [][NextSaved]_vars

(* ---------------------------------------------------------------------- *)
(* Sanity of the model                                                     *)
(* ---------------------------------------------------------------------- *)
\* ungroupChild composes the transforms that occur: no rotation, scales > 0
TransformsPlain ==
    \A i \in 1..Len(allNodes(objects)) :
        LET node == allNodes(objects)[i] IN
        /\ node.rotation = Vec(0, 0, 0)
        /\ \A k \in 1..3 : node.scale[k][1] > 0

(* ---------------------------------------------------------------------- *)
(* Steps the properties speak about                                        *)
(* ---------------------------------------------------------------------- *)
\* the 50 ms timer ran performBooleanOperation through to setObjects
BooleanCommit == BooleanTimerStep /\ last'.op = "boolean" /\ last'.commit

\* reader.onload went through to setObjects
ImportCommit == ImportOnloadStep /\ last'.op = "import" /\ last'.commit

\* a mutating command takes effect: a handler that is not undo, redo or a
\* change of selection gets past its early returns. A step that changes a
\* variable is a step of handleGroup or handleUngroup only through the
\* branch that runs the command. (Each of these steps is issued by the
\* user or calls saveToHistory; saying so first spares the evaluation of
\* the handlers on the other steps.)
CommandStep ==
    /\ issued' # issued \/ past' # past
    /\ \/ AddStep
       \/ UpdateStep
       \/ DeleteStep
       \/ onDeleteSelected
       \/ DuplicateStep
       \/ handleGroup
       \/ handleUngroup
       \/ BooleanCommit
       \/ ImportCommit

History == [objects |-> objects, past |-> past, future |-> future]

\* undo and redo as functions of the three history variables
undoOf(h) ==
    IF h.past = <<>> THEN h ELSE undoState(h.objects, h.past, h.future)

redoOf(h) ==
    IF h.future = <<>> THEN h ELSE redoState(h.objects, h.past, h.future)

RECURSIVE UndoTimes(_, _)
UndoTimes(h, n) == IF n = 0 THEN h ELSE UndoTimes(undoOf(h), n - 1)

RECURSIVE RedoTimes(_, _)
RedoTimes(h, n) == IF n = 0 THEN h ELSE RedoTimes(redoOf(h), n - 1)

(* ---------------------------------------------------------------------- *)
(* C1                                                                      *)
(* ---------------------------------------------------------------------- *)
\* C1: every mutating command lengthens past by at least one, so after N
\* commands N undos all take effect; and in every state, for every n up to
\* the length of past, n undos followed by n redos give back exactly the
\* objects, past and future the undos started from.
UndoRedoInverse ==
    /\ [](\A n \in 1..Len(past) :
             RedoTimes(UndoTimes(History, n), n) = History)
    /\ [][CommandStep => Len(past') >= Len(past) + 1]_vars

\* two commands, then an undo and the redo that takes it back
UndoRedoInverseWitness ==
    /\ Len(past) >= 2
    /\ last.op = "redo"
    /\ future = <<>>

(* ---------------------------------------------------------------------- *)
(* C2                                                                      *)
(* ---------------------------------------------------------------------- *)
\* C2: a mutating command that commits while future is not empty leaves
\* future empty, which is the state in which redo changes nothing.
HistoryTruncation ==
    [][CommandStep /\ future # <<>> =>
          /\ future' = <<>>
          /\ redoOf(History') = History']_vars

\* a command has committed in a state that had redos pending
HistoryTruncationWitness ==
    /\ last.commit
    /\ last.hadFuture
    /\ future = <<>>

(* ---------------------------------------------------------------------- *)
(* C3                                                                      *)
(* ---------------------------------------------------------------------- *)
\* C3: when a mutating command commits, the snapshot it appends to past is
\* the graph as it was immediately before the change, in every
\* interleaving of the deferred completions with other commands.
PreMutationSnapshot ==
    [][CommandStep =>
          /\ past' # <<>>
          /\ past'[Len(past')] = objects]_vars

(* ---------------------------------------------------------------------- *)
(* C4                                                                      *)
(* ---------------------------------------------------------------------- *)
\* C4: undo with past empty leaves objects, past and future unchanged;
\* with past = P ++ [s], graph g and future F it ends with objects = s,
\* past = P and future = [g] ++ F.
UndoContract ==
    [][undo =>
          IF past = <<>>
          THEN UNCHANGED <<objects, past, future>>
          ELSE /\ objects' = past[Len(past)]
               /\ past' = SubSeq(past, 1, Len(past) - 1)
               /\ future' = <<objects>> \o future]_vars

\* an undo has put a graph that differs from the restored one on future
UndoContractWitness ==
    /\ last.op = "undo"
    /\ future # <<>>
    /\ future[1] # objects

(* ---------------------------------------------------------------------- *)
(* C5                                                                      *)
(* ---------------------------------------------------------------------- *)
\* C5: redo with future empty leaves objects, past and future unchanged;
\* with future = [s] ++ F, graph g and past P it ends with objects = s,
\* past = P ++ [g] and future = F.
RedoContract ==
    [][redo =>
          IF future = <<>>
          THEN UNCHANGED <<objects, past, future>>
          ELSE /\ objects' = future[1]
               /\ past' = Append(past, objects)
               /\ future' = Tail(future)]_vars

\* a redo has put a graph that differs from the restored one on past
RedoContractWitness ==
    /\ last.op = "redo"
    /\ past # <<>>
    /\ past[Len(past)] # objects

(* ---------------------------------------------------------------------- *)
(* C6                                                                      *)
(* ---------------------------------------------------------------------- *)
\* C6: every user command that changes the graph, Delete Selected on two
\* or more nodes included, lengthens past by exactly one.
OneSnapshotPerCommand ==
    [][CommandStep => Len(past') = Len(past) + 1]_vars

(* ---------------------------------------------------------------------- *)
(* C7                                                                      *)
(* ---------------------------------------------------------------------- *)
\* what makes performBooleanOperation fail, for the closure callback and
\* the combinator outcome csg
BooleanFails(callback, csg) ==
    LET sel == callback.selectedIds
        objA == findObjectRecursive(callback.objects, sel[1])
        objB == findObjectRecursive(callback.objects, sel[2])
    IN \/ Len(sel) # 2
       \/ ~IsDefined(objA)
       \/ ~IsDefined(objB)
       \/ objA[1].type = "group"
       \/ objB[1].type = "group"
       \/ ~IsDefined(createMeshFromObject(objA[1]))
       \/ ~IsDefined(createMeshFromObject(objB[1]))
       \/ csg # "ok"

ImportFails(content) == content.result \in {"throws", "none"}

IsError(n) == IsDefined(n) /\ n[1].type = "error"

\* C7: a boolean combine that fails (selection size, operand not found,
\* group operand, no mesh, combinator exception, no or invalid result) and
\* an import that fails (no geometry, parser exception) leave objects,
\* past and future as they were and end with an error notification:
\* performBooleanOperation, run on the graph with no, one or two of the
\* selected identifiers, neither commits nor stays silent when it fails,
\* and the callback that runs a failing combine or import changes nothing
\* but the notification.
FailureAtomicity ==
    /\ [](\A size \in 0..Len(selectedIds), op \in BooleanOps,
            csg \in CsgOutcomes, world \in CsgResults :
             LET callback == [objects |-> objects,
                              selectedIds |-> SubSeq(selectedIds, 1, size)]
                 out == performBooleanOperation(op, callback.objects,
                            callback.selectedIds, csg, world, generateId)
             IN BooleanFails(callback, csg) =>
                   ~out.commit /\ IsError(out.notification))
    /\ [][\A i \in 1..Len(pending) :
             pending' = dropPending(i) =>
             /\ \A csg \in CsgOutcomes, world \in CsgResults :
                   /\ pending[i].kind = "boolean"
                   /\ BooleanFails(pending[i], csg)
                   /\ booleanTimer(i, csg, world)
                   => /\ UNCHANGED <<objects, past, future>>
                      /\ IsError(notification')
             /\ \A content \in FileContents, color \in RandomColors :
                   /\ pending[i].kind = "import"
                   /\ ImportFails(content)
                   /\ importOnload(i, content, color)
                   => /\ UNCHANGED <<objects, past, future>>
                      /\ IsError(notification')]_vars

\* a boolean combine has failed in a session that has a history
FailureAtomicityWitness ==
    /\ last.op = "boolean"
    /\ ~last.commit
    /\ IsError(notification)
    /\ past # <<>>

(* ---------------------------------------------------------------------- *)
(* C8                                                                      *)
(* ---------------------------------------------------------------------- *)
\* a command is called with a target it cannot find
LookupFailStep ==
    \/ \E id \in Targets \ idsInScene :
          \/ \E updates \in Updates : handleUpdateObject(id, updates)
          \/ handleDeleteObject(id)
          \/ handleDuplicateObject(id)
    \/ /\ handleGroup
       /\ selectedOf(objects, selectedIds) = <<>>

\* C8: update, delete or duplicate of an identifier that no node carries,
\* and group with no selected identifier in the root list, leave objects,
\* past and future unchanged.
LookupFailureNoOp ==
    [][LookupFailStep => UNCHANGED <<objects, past, future>>]_vars

(* ---------------------------------------------------------------------- *)
(* C9                                                                      *)
(* ---------------------------------------------------------------------- *)
\* C9: every identifier is carried by exactly one node of the forest, at
\* any depth.
IdentifierUniqueness ==
    \A i, j \in 1..Len(allIds(objects)) :
        allIds(objects)[i] = allIds(objects)[j] => i = j

\* a group with children stands next to its duplicate
IdentifierUniquenessWitness ==
    /\ last.op = "duplicate"
    /\ last.found
    /\ \E i, j \in 1..Len(objects) :
          /\ i # j
          /\ objects[i].type = "group"
          /\ objects[j].type = "group"
          /\ IsDefined(objects[i].children)
          /\ IsDefined(objects[j].children)
          /\ Len(objects[i].children[1]) >= 2
          /\ Len(objects[j].children[1]) >= 2

(* ---------------------------------------------------------------------- *)
(* C10                                                                     *)
(* ---------------------------------------------------------------------- *)
\* C10: a node has a children list exactly when its type is group and has
\* geometryData exactly when its type is custom.
KindInvariant ==
    \A i \in 1..Len(allNodes(objects)) :
        LET node == allNodes(objects)[i] IN
        /\ IsDefined(node.children) <=> node.type = "group"
        /\ IsDefined(node.geometryData) <=> node.type = "custom"

\* a group and a custom mesh are in the forest together
KindInvariantWitness ==
    /\ \E i \in 1..Len(allNodes(objects)) :
          allNodes(objects)[i].type = "group"
    /\ \E i \in 1..Len(allNodes(objects)) :
          allNodes(objects)[i].type = "custom"

(* ---------------------------------------------------------------------- *)
(* C11                                                                     *)
(* ---------------------------------------------------------------------- *)
\* the 50 ms timers set by handleBooleanOperation that have not run yet
BooleansInFlight == {i \in 1..Len(pending) : pending[i].kind = "boolean"}

\* C11: at most one boolean combine is in flight: between the request of a
\* combine and the run of its timer no second combine is requested.
BooleanExclusivity == Cardinality(BooleansInFlight) <= 1

(* ---------------------------------------------------------------------- *)
(* C12                                                                     *)
(* ---------------------------------------------------------------------- *)
\* C12: while a boolean combine is in flight, a step that is not the run
\* of a scheduled callback leaves the graph as it is, and the timer of the
\* combine finds the graph it was requested on.
BooleanSuspendPoint ==
    [][/\ BooleansInFlight # {} /\ pending' = pending => objects' = objects
       /\ \A i \in BooleansInFlight :
             pending' = dropPending(i) => pending[i].objects = objects]_vars

(* ---------------------------------------------------------------------- *)
(* C13                                                                     *)
(* ---------------------------------------------------------------------- *)
\* C13: every custom node of the forest is realised as a mesh, whatever
\* its geometryData holds, so no combine is refused for its operand's mesh.
CustomMeshFallback ==
    \A i \in 1..Len(allNodes(objects)) :
        allNodes(objects)[i].type = "custom"
            => IsDefined(createMeshFromObject(allNodes(objects)[i]))

(* ---------------------------------------------------------------------- *)
(* C14                                                                     *)
(* ---------------------------------------------------------------------- *)
\* the vertices of the geometry that the engine and the viewport give obj
verticesOf(obj) ==
    IF IsDefined(createMeshFromObject(obj))
    THEN createMeshFromObject(obj)[1].geometry.vertices ELSE <<>>

\* where createMeshFromObject's mesh puts the vertex v of obj
enginePlacement(obj, v) ==
    LET mesh == createMeshFromObject(obj)[1]
    IN applyMatrix4(mesh.position, mesh.rotation, mesh.scale, v)

\* where SceneNode puts it: the mesh at position = pivot inside the wrapper
\* group that carries obj.position, obj.rotation and obj.scale
viewportPlacement(obj, v) ==
    applyMatrix4(obj.position, obj.rotation, obj.scale,
                 VAdd(v, IF IsDefined(obj.pivot) THEN obj.pivot[1]
                         ELSE Vec(0, 0, 0)))

\* C14: the boolean engine places every vertex v of a top-level solid at
\* T(node)(v + pivot), the pivot added before scale and rotation act, which
\* is where the viewport renders it.
PivotPlacement ==
    \A i \in 1..Len(objects) :
        objects[i].type # "group" =>
            \A k \in 1..Len(verticesOf(objects[i])) :
                enginePlacement(objects[i], verticesOf(objects[i])[k])
                    = viewportPlacement(objects[i], verticesOf(objects[i])[k])

(* ---------------------------------------------------------------------- *)
(* C16                                                                     *)
(* ---------------------------------------------------------------------- *)
Invertible(scale) == \A k \in 1..3 : scale[k] # NaN /\ scale[k][1] # 0

\* C16: the mesh the boolean engine makes of any node has a finite nonzero
\* scale on every axis, and so has every child that ungroup stores.
ScaleFloor ==
    /\ [](\A i \in 1..Len(allNodes(objects)) :
             LET mesh == createMeshFromObject(allNodes(objects)[i])
             IN IsDefined(mesh) => Invertible(mesh[1].scale))
    /\ [][handleUngroup /\ objects' # objects =>
             \A i \in 1..Len(objects') :
                 Includes(selectedIds', objects'[i].id)
                     => Invertible(objects'[i].scale)]_vars

(* ---------------------------------------------------------------------- *)
(* C17                                                                     *)
(* ---------------------------------------------------------------------- *)
\* equal within 1e-5: the arithmetic here is exact, and NaN is near nothing
Near(u, v) == \A k \in 1..3 : u[k] # NaN /\ v[k] # NaN /\ u[k] = v[k]

\* the group made by the last command is selected and is ungrouped now
UngroupsNewGroup ==
    /\ last.op = "group"
    /\ last.found
    /\ objects # <<>>
    /\ selectedIds = <<objects[Len(objects)].id>>
    /\ handleUngroup
    /\ objects' # objects

\* C17: ungrouping the group just made gives each grouped node the
\* position, rotation and scale it had before grouping, and leaves the
\* forest with the nodes it had before grouping.
GroupUngroupInverse ==
    [][UngroupsNewGroup =>
          LET before == past[Len(past)]
          IN /\ Range(allIds(objects')) = Range(allIds(before))
             /\ \A i \in 1..Len(before), j \in 1..Len(objects') :
                   before[i].id = objects'[j].id =>
                       /\ Near(objects'[j].position, before[i].position)
                       /\ Near(objects'[j].rotation, before[i].rotation)
                       /\ Near(objects'[j].scale, before[i].scale)]_vars

(* ---------------------------------------------------------------------- *)
(* C15                                                                     *)
(* ---------------------------------------------------------------------- *)
\* C15: the node stored by a successful combine, rendered with its stored
\* position, scale and pivot, puts every vertex of its geometry where the
\* combinator's result has it in world space.
BooleanRoundTrip ==
    [][\A i \in 1..Len(pending) :
          pending' = dropPending(i) /\ pending[i].kind = "boolean" =>
          \A csg \in CsgOutcomes, world \in CsgResults :
              booleanTimer(i, csg, world) /\ last'.commit =>
                  LET node == objects'[Len(objects')]
                  IN \A k \in 1..Len(world) :
                         viewportPlacement(
                             node, node.geometryData[1].vertices[k])
                             = world[k]]_vars

(* ---------------------------------------------------------------------- *)
(* C18                                                                     *)
(* ---------------------------------------------------------------------- *)
\* C18: the copy of a node named R, R (Copy) or R (Copy k) is named
\* R (Copy) when no node has that name, else R (Copy n) for the least
\* n >= 2 that no node has; no node had the new name before.
DuplicateNaming ==
    [][\A id \in idsInScene :
          handleDuplicateObject(id) =>
              LET rootName == findObjectRecursive(objects, id)[1].name.root
                  names == getAllNames(objects)
                  copy == objects'[Len(objects')].name
              IN /\ copy \notin names
                 /\ IF Name(rootName, 1) \notin names
                    THEN copy = Name(rootName, 1)
                    ELSE \E n \in 2..(Cardinality(names) + 1) :
                            /\ copy = Name(rootName, n)
                            /\ \A m \in 2..(n - 1) :
                                  Name(rootName, m) \in names]_vars

\* "Box 1" was duplicated twice: "Box 1 (Copy)" and "Box 1 (Copy 2)"
DuplicateNamingWitness ==
    /\ last.op = "duplicate"
    /\ \A n \in 0..2 : Name(<<"Box", 1>>, n) \in getAllNames(objects)
    /\ Name(<<"Box", 1>>, 3) \notin getAllNames(objects)

(* ---------------------------------------------------------------------- *)
(* C20                                                                     *)
(* ---------------------------------------------------------------------- *)
\* C20: a combine that succeeds on operands A and B leaves the forest
\* without A and B at any depth, with one new custom node at the end of
\* the root list and every other node as it was, and selects the new node.
BooleanAtomicEdit ==
    [][\A i \in 1..Len(pending) :
          pending' = dropPending(i) /\ pending[i].kind = "boolean" =>
          \A csg \in CsgOutcomes, world \in CsgResults :
              booleanTimer(i, csg, world) /\ last'.commit =>
                  LET node == objects'[Len(objects')]
                      operands == pending[i].selectedIds
                  IN /\ \A k \in 1..2 :
                           operands[k] \notin Range(allIds(objects'))
                     /\ node.type = "custom"
                     /\ node.id \notin idsInScene
                     /\ SubSeq(objects', 1, Len(objects') - 1)
                            = deleteObjectRecursive(objects, operands)
                     /\ selectedIds' = <<node.id>>]_vars

(* ---------------------------------------------------------------------- *)
(* C19                                                                     *)
(* ---------------------------------------------------------------------- *)
\* C19: a document is loaded exactly when it parses and its objects is an
\* array: then objects becomes that array and past, future and the
\* selection become empty; any other document leaves the four as they
\* were and ends with an error notification.
ProjectLoad ==
    [][\A i \in 1..Len(pending) :
          pending' = dropPending(i) /\ pending[i].kind = "open" =>
          \A document \in OpenDocuments :
              openOnload(i, document) =>
                  IF /\ document.parses
                     /\ IsDefined(document.objects)
                     /\ document.objects[1].kind = "array"
                  THEN /\ objects' = document.objects[1].value
                       /\ past' = <<>>
                       /\ future' = <<>>
                       /\ selectedIds' = <<>>
                  ELSE /\ UNCHANGED <<objects, past, future, selectedIds>>
                       /\ IsError(notification')]_vars

\* a project was loaded over a session that had made a group
ProjectLoadWitness ==
    /\ last.op = "open"
    /\ last.commit
    /\ objects = <<PivotedBox>>
    /\ past = <<>>
    /\ nextId > 1

(* ---------------------------------------------------------------------- *)
(* C21                                                                     *)
(* ---------------------------------------------------------------------- *)
\* where the scene graph puts the point v of the wrapper group of node id:
\* SceneNode renders the children of a group inside the group's own
\* <group position rotation scale>, so every ancestor's transform acts on v
\* after the node's own
RECURSIVE matrixWorld(_, _, _)
matrixWorld(list, id, v) ==
    IF list = <<>> THEN Undefined
    ELSE LET obj == list[1]
             inside == IF obj.id = id THEN Some(v)
                       ELSE IF IsDefined(obj.children)
                            THEN matrixWorld(obj.children[1], id, v)
                            ELSE Undefined
         IN IF IsDefined(inside)
            THEN Some(applyMatrix4(obj.position, obj.rotation, obj.scale,
                                   inside[1]))
            ELSE matrixWorld(Tail(list), id, v)

\* the operands a boolean callback looks up in the graph of its render
operandsOf(callback) ==
    [k \in 1..2 |->
        findObjectRecursive(callback.objects, callback.selectedIds[k])]

\* both operands are found and neither is a group: executeBooleanOperation
\* is called
reachesEngine(callback) ==
    \A k \in 1..2 :
        /\ IsDefined(operandsOf(callback)[k])
        /\ operandsOf(callback)[k][1].type # "group"

\* C21: the mesh handed to the combinator for an operand, nested or not,
\* puts every vertex of the operand where the operand's world transform
\* (every ancestor group's transform composed with its own) puts it.
OperandPlacement ==
    [][\A i \in 1..Len(pending) :
          pending' = dropPending(i) /\ pending[i].kind = "boolean" =>
          \A csg \in CsgOutcomes, world \in CsgResults :
              booleanTimer(i, csg, world) /\ reachesEngine(pending[i]) =>
                  \A k \in 1..2 :
                      LET obj == operandsOf(pending[i])[k][1]
                      IN \A n \in 1..Len(verticesOf(obj)) :
                             enginePlacement(obj, verticesOf(obj)[n])
                                 = matrixWorld(pending[i].objects, obj.id,
                                               verticesOf(obj)[n])[1]]_vars

(* ---------------------------------------------------------------------- *)
(* C22                                                                     *)
(* ---------------------------------------------------------------------- *)
\* C22: the node stored by a successful combine of A (selected first) and
\* B (selected second) has A's position for subtract and the midpoint
\* (A + B) / 2 for union and intersect, whatever the bounding box of the
\* result is.
ResultPosition ==
    [][\A i \in 1..Len(pending) :
          pending' = dropPending(i) /\ pending[i].kind = "boolean" =>
          \A csg \in CsgOutcomes, world \in CsgResults :
              booleanTimer(i, csg, world) /\ last'.commit =>
                  LET A == operandsOf(pending[i])[1][1]
                      B == operandsOf(pending[i])[2][1]
                      node == objects'[Len(objects')]
                  IN \A k \in 1..3 :
                         node.position[k] =
                             IF pending[i].op = "subtract"
                             THEN A.position[k]
                             ELSE RDivInt(RAdd(A.position[k], B.position[k]),
                                          2)]_vars

\* a subtract has put its result where the first operand was, which is
\* not the centre of the result's bounding box
ResultPositionWitness ==
    /\ last.op = "boolean"
    /\ last.commit
    /\ objects # <<>>
    /\ objects[Len(objects)].name = Name(<<"Subtract", 0>>, 0)
    /\ objects[Len(objects)].position = SavedBox.position
    /\ \E world \in CsgResults :
           VDivScalar(VAdd(Box3(world).min, Box3(world).max), 2)
               # SavedBox.position

(* ---------------------------------------------------------------------- *)
(* C23                                                                     *)
(* ---------------------------------------------------------------------- *)
\* the extents of the bounding box of the combinator's result
extentsOf(world) == VSub(Box3(world).max, Box3(world).min)

\* C23: every component of the scale of the node stored by a successful
\* combine is the absolute value of the matching bounding-box extent, and
\* is 1 when that extent is below 1: no component is below 1.
ResultScale ==
    [][\A i \in 1..Len(pending) :
          pending' = dropPending(i) /\ pending[i].kind = "boolean" =>
          \A csg \in CsgOutcomes, world \in CsgResults :
              booleanTimer(i, csg, world) /\ last'.commit =>
                  LET node == objects'[Len(objects')]
                  IN \A k \in 1..3 :
                         /\ ~RLt(node.scale[k], R(1))
                         /\ node.scale[k] =
                                IF RLt(RAbs(extentsOf(world)[k]), R(1))
                                THEN R(1)
                                ELSE RAbs(extentsOf(world)[k])]_vars

\* C23, as the code has it: every component of the scale of the node stored
\* by a successful combine is the absolute value of the matching
\* bounding-box extent, and is 1 when that extent is 0: no component is 0,
\* and an extent strictly between 0 and 1 is kept as it is.
ResultScaleNonzero ==
    [][\A i \in 1..Len(pending) :
          pending' = dropPending(i) /\ pending[i].kind = "boolean" =>
          \A csg \in CsgOutcomes, world \in CsgResults :
              booleanTimer(i, csg, world) /\ last'.commit =>
                  LET node == objects'[Len(objects')]
                  IN \A k \in 1..3 :
                         /\ node.scale[k] # R(0)
                         /\ node.scale[k] =
                                IF extentsOf(world)[k] = R(0)
                                THEN R(1)
                                ELSE RAbs(extentsOf(world)[k])]_vars

\* a combine has stored a result that is 30 wide, 1/2 deep and flat
ResultScaleWitness ==
    /\ last.op = "boolean"
    /\ last.commit
    /\ objects # <<>>
    /\ objects[Len(objects)].type = "custom"
    /\ objects[Len(objects)].scale = <<R(30), <<1, 2>>, R(1)>>
    /\ \E world \in CsgResults : extentsOf(world) = <<R(30), <<1, 2>>, R(0)>>

(* ---------------------------------------------------------------------- *)
(* C24                                                                     *)
(* ---------------------------------------------------------------------- *)
\* C24: each scale component s of a node reaches its operand mesh as s
\* itself when |s| >= 0.001, as +0.001 when 0 <= s < 0.001 and as -0.001
\* when -0.001 < s < 0: never smaller than 0.001 in magnitude and never
\* with the sign of a nonzero s flipped.
ScaleClamp ==
    \A i \in 1..Len(allNodes(objects)) :
        LET node == allNodes(objects)[i]
            mesh == createMeshFromObject(node)
            eps == <<1, 1000>>
            minusEps == <<0 - 1, 1000>>
        IN IsDefined(mesh) =>
               \A k \in 1..3 :
                   LET s == node.scale[k]
                       m == mesh[1].scale[k]
                   IN s # NaN =>
                          /\ ~RLt(RAbs(s), eps) => m = s
                          /\ ~RLt(s, R(0)) /\ RLt(s, eps) => m = eps
                          /\ RLt(minusEps, s) /\ RLt(s, R(0)) => m = minusEps
                          /\ ~RLt(RAbs(m), eps)
                          /\ RLt(R(0), s) => RLt(R(0), m)
                          /\ RLt(s, R(0)) => RLt(m, R(0))

\* a combine ran on operands with scale components on both sides of 0 and
\* of +-0.001: 0, 1/2000, -1/2000, 1/1000, -1/1000 and -20
ScaleClampWitness ==
    /\ last.op = "boolean"
    /\ last.commit
    /\ past # <<>>
    /\ LET scales == UNION {Range(allNodes(past[Len(past)])[i].scale) :
                               i \in 1..Len(allNodes(past[Len(past)]))}
       IN {R(0), <<1, 2000>>, <<0 - 1, 2000>>, <<1, 1000>>, <<0 - 1, 1000>>,
           R(0 - 20)} \subseteq scales
    /\ \E i \in 1..Len(objects) : objects[i].scale[1] = R(30)

(* ---------------------------------------------------------------------- *)
(* C25                                                                     *)
(* ---------------------------------------------------------------------- *)
\* C25: grouping k >= 2 selected top-level nodes takes them out of the root
\* list and appends one new group: position the centroid c of their
\* positions, rotation 0, scale 1, children those nodes in their former
\* root order, each with position p - c and nothing else changed; the
\* other top-level nodes stay as they were, in their order.
GroupCreation ==
    [][LET chosen == SelectSeq(objects,
                               LAMBDA o : Includes(selectedIds, o.id))
           kept == SelectSeq(objects,
                             LAMBDA o : ~Includes(selectedIds, o.id))
           k == Len(chosen)
       IN handleGroup /\ k >= 2 =>
              LET c == [x \in 1..3 |->
                          RDivInt(VSum([j \in 1..k |-> chosen[j].position])[x],
                                  k)]
                  group == objects'[Len(objects')]
              IN /\ Len(objects') = Len(kept) + 1
                 /\ SubSeq(objects', 1, Len(kept)) = kept
                 /\ group.type = "group"
                 /\ group.id \notin idsInScene
                 /\ group.position = c
                 /\ group.rotation = Vec(0, 0, 0)
                 /\ group.scale = Vec(1, 1, 1)
                 /\ group.children =
                        Some([j \in 1..k |->
                                [chosen[j] EXCEPT
                                    !.position =
                                        [x \in 1..3 |->
                                            RSub(chosen[j].position[x],
                                                 c[x])]]])]_vars

\* two of three top-level nodes were grouped: the third keeps its place
\* and the children sit on either side of the centroid
GroupCreationWitness ==
    /\ last.op = "group"
    /\ last.found
    /\ Len(objects) = 2
    /\ objects[1].type # "group"
    /\ objects[2].type = "group"
    /\ Len(objects[2].children[1]) = 2
    /\ objects[2].children[1][1].position # objects[2].children[1][2].position
    /\ past # <<>>
    /\ Len(past[Len(past)]) = 3

(* ---------------------------------------------------------------------- *)
(* C26                                                                     *)
(* ---------------------------------------------------------------------- *)
\* the single selected node, as the PropertiesPanel that shows the Ungroup
\* button sees it
primarySelectedObject ==
    IF Len(selectedIds) = 1
    THEN findObjectRecursive(objects, selectedIds[1]) ELSE Undefined

\* the node handleUngroup looks up and works on
ungroupTarget ==
    IF Len(selectedIds) = 1
    THEN findRoot(objects, selectedIds[1]) ELSE Undefined

\* C26: ungroup acts on the selected group G at whatever depth G sits: it
\* finds G, removes it and puts G's children in its place, and no other
\* node enters or leaves the forest.
UngroupPromotion ==
    /\ [](IsDefined(primarySelectedObject)
              /\ primarySelectedObject[1].type = "group"
              /\ IsDefined(primarySelectedObject[1].children)
            => ungroupTarget = primarySelectedObject)
    /\ [][handleUngroup /\ objects' # objects =>
             /\ Range(allIds(objects'))
                    = Range(allIds(objects)) \ {selectedIds[1]}
             /\ Len(allIds(objects')) = Len(allIds(objects)) - 1]_vars

(* ---------------------------------------------------------------------- *)
(* C27                                                                     *)
(* ---------------------------------------------------------------------- *)
\* a node without its children list
childless(node) == [node EXCEPT !.children = Undefined]

\* C27: after delete(id) of a node of the forest, the node and its whole
\* subtree are gone from every depth, every other node is there as before
\* and in the same order (a group emptied of its children stays, with an
\* empty list), and id is not selected.
RecursiveDelete ==
    [][\A id \in idsInScene :
          handleDeleteObject(id) =>
              LET gone == Range(allIds(<<findObjectRecursive(objects, id)[1]>>))
                  stays(x) == x \notin gone
                  before == allNodes(objects)
                  after == allNodes(objects')
              IN /\ allIds(objects') = SelectSeq(allIds(objects), stays)
                 /\ \A j \in 1..Len(after) :
                       \E i \in 1..Len(before) :
                           /\ childless(after[j]) = childless(before[i])
                           /\ IsDefined(after[j].children)
                                  <=> IsDefined(before[i].children)
                           /\ IsDefined(after[j].children) =>
                                  allIds(after[j].children[1])
                                      = SelectSeq(
                                            allIds(before[i].children[1]),
                                            stays)
                 /\ id \notin Range(selectedIds')
                 /\ \A x \in Range(selectedIds) \ {id} :
                        x \in Range(selectedIds')]_vars

\* the only child of a nested group was deleted: the group is still there,
\* with no children
RecursiveDeleteWitness ==
    /\ last.op = "delete"
    /\ last.found
    /\ \E i \in 1..Len(objects) :
          /\ objects[i].type = "group"
          /\ \E j \in 1..Len(objects[i].children[1]) :
                objects[i].children[1][j].children = Some(<<>>)

(* ---------------------------------------------------------------------- *)
(* C28                                                                     *)
(* ---------------------------------------------------------------------- *)
PayloadFields ==
    {"id", "type", "color", "name", "baseDimensions", "geometryData"}

payloadOf(node) == [f \in PayloadFields |-> node[f]]

contentOf(node) ==
    [f \in {"type", "color", "baseDimensions", "geometryData"} |-> node[f]]

\* an update of fields outside the payload, a duplicate, a group, an ungroup
PayloadKeepingEdit ==
    \/ \E id \in Targets, updates \in Updates :
          /\ DOMAIN updates \cap PayloadFields = {}
          /\ handleUpdateObject(id, updates)
    \/ DuplicateStep
    \/ handleGroup
    \/ handleUngroup

\* every node that is in the forest before and after the step has the
\* payload it had
SurvivorsKeepPayload ==
    \A i \in 1..Len(allNodes(objects)), j \in 1..Len(allNodes(objects')) :
        allNodes(objects)[i].id = allNodes(objects')[j].id =>
            payloadOf(allNodes(objects')[j]) = payloadOf(allNodes(objects)[i])

\* every node of the copy made by a duplicate has the type, color,
\* baseDimensions and geometryData of the node it copies
CopiesKeepContent ==
    \A id \in idsInScene :
        handleDuplicateObject(id) =>
            LET original == allNodes(<<findObjectRecursive(objects, id)[1]>>)
                copy == allNodes(<<objects'[Len(objects')]>>)
            IN /\ Len(copy) = Len(original)
               /\ \A n \in 1..Len(copy) :
                     contentOf(copy[n]) = contentOf(original[n])

BooleanCompletion ==
    /\ (BooleansInFlight # {}) ~> (BooleansInFlight = {} /\ cursor = "default")
    /\ [][/\ \A op \in BooleanOps :
                handleBooleanOperation(op) /\ Len(selectedIds) = 2 =>
                    /\ Cardinality(BooleansInFlight')
                           = Cardinality(BooleansInFlight) + 1
                    /\ cursor' = "wait"
          /\ Cardinality(BooleansInFlight') < Cardinality(BooleansInFlight) =>
                /\ Cardinality(BooleansInFlight')
                       = Cardinality(BooleansInFlight) - 1
                /\ BooleanTimerStep
                /\ cursor' = "default"
                /\ last'.op = "boolean"
                /\ IF last'.commit
                   THEN /\ objects' # objects
                        /\ ~IsError(notification')
                   ELSE /\ UNCHANGED <<objects, past, future, selectedIds>>
                        /\ IsError(notification')
                        /\ notification'[1].message # ""]_vars

\* a combine that could not be computed has ended with an error message
\* and the cursor back, and no combine is waiting
BooleanCompletionWitness ==
    /\ last.op = "boolean"
    /\ ~last.commit
    /\ IsError(notification)
    /\ cursor = "default"
    /\ BooleansInFlight = {}
    /\ past = <<>>
    /\ issued >= 3

(* ---------------------------------------------------------------------- *)
(* C30                                                                     *)
(* ---------------------------------------------------------------------- *)
\* C30: every selected id is the id of a node of the forest.
SelectionValidity == Range(selectedIds) \subseteq idsInScene

=============================================================================
